---- MODULE Spec2Model ----
(***************************************************************************)
(* Model of chigusa's front-end infrastructure:                             *)
(*   src/src/prelude.rs : Pos, Span, Ptr (Rc/Weak), LoopCtrl, loop_while    *)
(*   src/src/c0/ast.rs  : Scope (symbol table chain), OpVar                 *)
(* Each component has its own specification (SpecPos, SpecSpan, SpecLoop,  *)
(* SpecScope, SpecOp) over the shared variable tuple; the variables of the *)
(* components stay at their initial values.                                *)
(***************************************************************************)
EXTENDS Integers, Sequences, FiniteSets, TLC

VARIABLES
    cur,        \* Pos: the position a lexer-like client advances
    steps,      \* number of position transitions applied to cur so far
    last,       \* the last position transition: [op, before]
    spans,      \* Span registers of a client: "lhs", "rhs" (operands)
    sum,        \* result of the last `lhs + rhs`, NoSpan when none is held
    panicked,   \* TRUE once assert!(start <= end) in Span::from has failed
    script,     \* loop_while: what the closure f returns on its i-th call
    pc,         \* loop_while: control location
    x,          \* loop_while: the local `x: LoopCtrl<T>`
    calls,      \* loop_while: number of invocations of f so far
    result,     \* loop_while: the value returned, NoResult before return
    heap,       \* Rc<RefCell<Scope>> allocations, by address (index)
    ret,        \* the last Scope call and what it returned
    opvar,      \* the OpVar of an operator expression (BinaryOp.var, UnaryOp.var)
    binary,     \* what opvar.is_binary() returned: <<b>>, <<>> before the call
    unary       \* what opvar.is_unary() returned: <<b>>, <<>> before the call

posVars   == <<cur, steps, last>>
spanVars  == <<spans, sum, panicked>>
loopVars  == <<script, pc, x, calls, result>>
scopeVars == <<heap, ret>>
opVars    == <<opvar, binary, unary>>
vars      == <<cur, steps, last, spans, sum, panicked,
               script, pc, x, calls, result, heap, ret,
               opvar, binary, unary>>

\* What an operation of one component leaves alone: the other components.
PosOnly   == UNCHANGED <<spanVars, loopVars, scopeVars, opVars>>
SpanOnly  == UNCHANGED <<posVars, loopVars, scopeVars, opVars>>
LoopOnly  == UNCHANGED <<posVars, spanVars, scopeVars, opVars>>
ScopeOnly == UNCHANGED <<posVars, spanVars, loopVars, opVars>>
OpOnly    == UNCHANGED <<posVars, spanVars, loopVars, scopeVars>>

(***************************************************************************)
(* Bounds of the model                                                     *)
(***************************************************************************)
MaxSteps == 6
MaxCol == 1
MaxIndex == 1
MaxCalls == 4
MaxScopes == 3
MaxHandles == 3
MaxBindings == 2
MaxSkip == 2

(***************************************************************************)
(* Pos (prelude.rs 15-118)                                                 *)
(***************************************************************************)
Pos(ln, pos, index) == [ln |-> ln, pos |-> pos, index |-> index]

PosZero == Pos(0, 0, 0)

Bump(p) == [p EXCEPT !.index = p.index + 1]

Inc(p) == [p EXCEPT !.pos = p.pos + 1, !.index = p.index + 1]

Lf(p) == [p EXCEPT !.pos = 0, !.ln = p.ln + 1, !.index = p.index + 1]

IncSelf(p) == [p EXCEPT !.pos = p.pos + 1, !.index = p.index + 1]

LfSelfKeepsColumn(p) == [p EXCEPT !.ln = p.ln + 1, !.index = p.index + 1]
LfSelf(p) == [p EXCEPT !.pos = 0, !.ln = p.ln + 1, !.index = p.index + 1]

BumpSelf(p) == [p EXCEPT !.index = p.index + 1]

\* Ord / PartialOrd for Pos compare the index alone.
PosCmp(a, b) ==
    IF a.index < b.index THEN "Less"
    ELSE IF a.index = b.index THEN "Equal"
    ELSE "Greater"

PosLe(a, b) == PosCmp(a, b) \in {"Less", "Equal"}

\* std::cmp::min(v1, v2): v1 unless v1 compares Greater.
PosMin(a, b) == IF PosCmp(a, b) \in {"Less", "Equal"} THEN a ELSE b

\* std::cmp::max(v1, v2): v2 unless v1 compares Greater.
PosMax(a, b) == IF PosCmp(a, b) \in {"Less", "Equal"} THEN b ELSE a

\* cur = cur.bump();
DoBump ==
    /\ steps < MaxSteps
    /\ cur' = Bump(cur)
    /\ steps' = steps + 1
    /\ last' = [op |-> "bump", before |-> cur]
    /\ PosOnly

\* cur = cur.inc();
DoInc ==
    /\ steps < MaxSteps
    /\ cur' = Inc(cur)
    /\ steps' = steps + 1
    /\ last' = [op |-> "inc", before |-> cur]
    /\ PosOnly

\* cur = cur.lf();
DoLf ==
    /\ steps < MaxSteps
    /\ cur' = Lf(cur)
    /\ steps' = steps + 1
    /\ last' = [op |-> "lf", before |-> cur]
    /\ PosOnly

\* cur.inc_self();
DoIncSelf ==
    /\ steps < MaxSteps
    /\ cur' = IncSelf(cur)
    /\ steps' = steps + 1
    /\ last' = [op |-> "inc_self", before |-> cur]
    /\ PosOnly

\* cur.lf_self();
DoLfSelf ==
    /\ steps < MaxSteps
    /\ cur' = LfSelf(cur)
    /\ steps' = steps + 1
    /\ last' = [op |-> "lf_self", before |-> cur]
    /\ PosOnly

\* cur.bump_self();
DoBumpSelf ==
    /\ steps < MaxSteps
    /\ cur' = BumpSelf(cur)
    /\ steps' = steps + 1
    /\ last' = [op |-> "bump_self", before |-> cur]
    /\ PosOnly

InitPos ==
    /\ cur = PosZero
    /\ steps = 0
    /\ last = [op |-> "zero", before |-> PosZero]

(***************************************************************************)
(* Span (prelude.rs 120-205)                                               *)
(***************************************************************************)
\* Pos::new(ln, pos, index) takes any triple.  Span code reads the index and
\* carries ln and pos along: the positions offered are every column of line 0
\* and the start of line 1, at every offset.
PosSet ==
    { Pos(0, c, i) : c \in 0..MaxCol, i \in 0..MaxIndex }
        \cup { Pos(1, 0, i) : i \in 0..MaxIndex }

NoSpan == [none |-> TRUE]

Span(start, end) == [start |-> start, end |-> end]

SpanZero == Span(PosZero, PosZero)

SpanPoint(p) == Span(p, p)

AddTakesLargerStart(a, b) == Span(PosMax(a.start, b.start), PosMax(a.end, b.end))
SpanAdd(a, b) == Span(PosMin(a.start, b.start), PosMax(a.end, b.end))

FromAssertMissing(start, end) == TRUE
FromAssertHolds(start, end) == PosLe(start, end)

\* Span::from: the assert aborts the program, no span is returned.
DoSpanFrom(r, start, end) ==
    /\ ~panicked
    /\ IF FromAssertHolds(start, end)
         THEN /\ spans' = [spans EXCEPT ![r] = Span(start, end)]
              /\ panicked' = FALSE
         ELSE /\ spans' = spans
              /\ panicked' = TRUE
    /\ sum' = NoSpan
    /\ SpanOnly

DoSpanPoint(r, p) ==
    /\ ~panicked
    /\ spans' = [spans EXCEPT ![r] = SpanPoint(p)]
    /\ sum' = NoSpan
    /\ UNCHANGED panicked
    /\ SpanOnly

DoSpanZero(r) ==
    /\ ~panicked
    /\ spans' = [spans EXCEPT ![r] = SpanZero]
    /\ sum' = NoSpan
    /\ UNCHANGED panicked
    /\ SpanOnly

\* let sum = lhs + rhs;
DoSpanAdd ==
    /\ ~panicked
    /\ sum = NoSpan
    /\ sum' = SpanAdd(spans["lhs"], spans["rhs"])
    /\ UNCHANGED <<spans, panicked>>
    /\ SpanOnly

\* The union becomes an operand of a later union.
DoSpanFold(r) ==
    /\ ~panicked
    /\ sum # NoSpan
    /\ spans' = [spans EXCEPT ![r] = sum]
    /\ sum' = NoSpan
    /\ UNCHANGED panicked
    /\ SpanOnly

Regs == {"lhs", "rhs"}

InitSpan ==
    /\ spans = [r \in Regs |-> SpanZero]
    /\ sum = NoSpan
    /\ panicked = FALSE

(***************************************************************************)
(* LoopCtrl and loop_while (prelude.rs 279-354)                            *)
(***************************************************************************)
Values == {"a", "b"}

Continue == [tag |-> "Continue"]

Stop(v) == [tag |-> "Stop", val |-> v]

LoopCtrl == {Continue} \cup { Stop(v) : v \in Values }

NoResult == "none"

IsContinueInverted(c) == c.tag # "Continue"
IsContinue(c) == c.tag = "Continue"

\* while x.is_continue() { ... }
LoopTest ==
    /\ pc = "while"
    /\ pc' = IF IsContinue(x) THEN "body" ELSE "unwrap"
    /\ UNCHANGED <<script, x, calls, result>>
    /\ LoopOnly

\* x = f();
LoopBody ==
    /\ pc = "body"
    /\ calls < MaxCalls
    /\ x' = script[calls + 1]
    /\ calls' = calls + 1
    /\ pc' = "while"
    /\ UNCHANGED <<script, result>>
    /\ LoopOnly

\* x.unwrap()
LoopUnwrap ==
    /\ pc = "unwrap"
    /\ IF x.tag = "Stop"
         THEN /\ result' = x.val
              /\ pc' = "done"
         ELSE /\ result' = result
              /\ pc' = "panic"
    /\ UNCHANGED <<script, x, calls>>
    /\ LoopOnly

InitLoop ==
    /\ script \in [1..MaxCalls -> LoopCtrl]
    /\ pc = "while"
    /\ x = Continue
    /\ calls = 0
    /\ result = NoResult

(***************************************************************************)
(* Ptr / Weak (prelude.rs 224-249) and Scope (ast.rs 165-230)              *)
(*                                                                         *)
(* heap[a] is the allocation of one Rc<RefCell<Scope>>: its strong count,  *)
(* and, while the count is positive, the Scope it holds.  parent = 0 is    *)
(* Option::None, otherwise the address the Weak points at.  An allocation  *)
(* whose count fell to 0 has had its Scope dropped; Weak references keep   *)
(* the address from being reused.                                          *)
(***************************************************************************)
Names == { <<"x">>, <<"y">>, <<>> }

None == 0

NoParent == 0

Dropped == [strong |-> 0, parent |-> NoParent, token_table |-> <<>>]

Alive(a) == a \in 1..Len(heap) /\ heap[a].strong > 0

Bindings == LET RECURSIVE Total(_)
                Total(a) == IF a = 0 THEN 0
                            ELSE Len(heap[a].token_table) + Total(a - 1)
            IN Total(Len(heap))

\* The Ptr<TokenEntry> a caller passes to an insert is one it has just made
\* with Ptr::new: it differs from every entry bound so far.
BoundEntries ==
    UNION { { heap[a].token_table[i].entry : i \in 1..Len(heap[a].token_table) } :
            a \in 1..Len(heap) }

FreshEntry == CHOOSE e \in 1..(MaxBindings + 1) :
                  /\ e \notin BoundEntries
                  /\ \A f \in 1..(MaxBindings + 1) : f \notin BoundEntries => e <= f

\* An insert into a full model grows no table: only re-inserts stay enabled.
MayInsert(a, n) ==
    \/ Bindings < MaxBindings
    \/ \E i \in 1..Len(heap[a].token_table) : heap[a].token_table[i].name = n

\* IndexMap::get
TableGet(t, n) ==
    IF \E i \in 1..Len(t) : t[i].name = n
      THEN t[CHOOSE i \in 1..Len(t) : t[i].name = n].entry
      ELSE None

\* An upgrade that succeeds whatever the strong count.
UpgradeIgnoresDrop(a) == heap[a].parent
\* Weak::upgrade: the parent's address while an owning handle to it is left.
Upgrade(a) ==
    IF heap[a].parent # NoParent /\ heap[heap[a].parent].strong > 0
      THEN heap[a].parent
      ELSE NoParent

\* Scope::parent
Parent(a) == Upgrade(a)

\* Rc::drop of one owning handle; the Scope goes with the last one.
Release(h, a) ==
    IF h[a].strong = 1
      THEN [h EXCEPT ![a] = Dropped]
      ELSE [h EXCEPT ![a].strong = h[a].strong - 1]

\* Ptr::downgrade(self): the Weak is made, then the handle passed in is dropped.
Downgrade(h, a) == Release(h, a)

\* The owning handles (Ptr<Scope>) the program holds.
Handles == LET RECURSIVE Total(_)
               Total(a) == IF a = 0 THEN 0 ELSE heap[a].strong + Total(a - 1)
           IN Total(Len(heap))

\* Scope::new(parent), the new Scope placed in a fresh Ptr.
DoScopeNew(p) ==
    /\ Len(heap) < MaxScopes
    /\ p = NoParent => Handles < MaxHandles
    /\ p = NoParent \/ Alive(p)
    /\ heap' = Append(IF p = NoParent THEN heap ELSE Downgrade(heap, p),
                      [strong |-> 1, parent |-> p, token_table |-> <<>>])
    /\ ret' = [op |-> "new", val |-> p]
    /\ ScopeOnly

\* Ptr::clone
DoPtrClone(a) ==
    /\ Alive(a)
    /\ Handles < MaxHandles
    /\ heap' = [heap EXCEPT ![a].strong = heap[a].strong + 1]
    /\ ret' = [op |-> "clone", val |-> None]
    /\ ScopeOnly

\* an owning handle goes out of scope
DoPtrDrop(a) ==
    /\ Alive(a)
    /\ heap' = Release(heap, a)
    /\ ret' = [op |-> "drop", val |-> None]
    /\ ScopeOnly

\* An insert that replaces the entry of an occupied name.
InsertOverwrites(t, n, e) ==
    IF TableGet(t, n) = None
      THEN Append(t, [name |-> n, entry |-> e])
      ELSE [i \in 1..Len(t) |-> IF t[i].name = n THEN [name |-> n, entry |-> e] ELSE t[i]]
\* Entry::Vacant => insert ; Entry::Occupied => the table is left as it is
VacantInsert(t, n, e) ==
    IF TableGet(t, n) = None
      THEN Append(t, [name |-> n, entry |-> e])
      ELSE t

\* try_insert with a conflict check that also looks at the enclosing scope.
TableOrParentConflict(a, n, e) ==
    IF TableGet(heap[a].token_table, n) = None
         /\ (Parent(a) = NoParent \/ TableGet(heap[Parent(a)].token_table, n) = None)
      THEN Append(heap[a].token_table, [name |-> n, entry |-> e])
      ELSE heap[a].token_table
TryInsertTable(a, n, e) == VacantInsert(heap[a].token_table, n, e)

TryInsertResult(a, n) == TableGet(heap[a].token_table, n) = None

\* Scope::try_insert
DoTryInsert(a, n) ==
    /\ Alive(a)
    /\ MayInsert(a, n)
    /\ heap' = [heap EXCEPT ![a].token_table = TryInsertTable(a, n, FreshEntry)]
    /\ ret' = [op |-> "try_insert", val |-> TryInsertResult(a, n)]
    /\ ScopeOnly

\* Scope::try_insert_or_replace_same: the Occupied arm only takes get_mut()
\* and returns false.
ReplaceSameReplaces(a, n, e) == InsertOverwrites(heap[a].token_table, n, e)
ReplaceSameTable(a, n, e) == VacantInsert(heap[a].token_table, n, e)

DoTryInsertOrReplaceSame(a, n) ==
    /\ Alive(a)
    /\ MayInsert(a, n)
    /\ heap' = [heap EXCEPT ![a].token_table = ReplaceSameTable(a, n, FreshEntry)]
    /\ ret' = [op |-> "try_insert_or_replace_same", val |-> TableGet(heap[a].token_table, n) = None]
    /\ ScopeOnly

\* Scope::find_definition_self
FindDefinitionSelf(a, n) == TableGet(heap[a].token_table, n)

\* A lookup that asks the enclosing scopes first.
RECURSIVE OutermostWins(_, _)
OutermostWins(a, n) ==
    IF Parent(a) # NoParent /\ OutermostWins(Parent(a), n) # None
      THEN OutermostWins(Parent(a), n)
      ELSE FindDefinitionSelf(a, n)

\* Scope::find_definition
RECURSIVE FindDefinition(_, _)
FindDefinition(a, n) ==
    IF FindDefinitionSelf(a, n) # None
      THEN FindDefinitionSelf(a, n)
      ELSE IF Parent(a) # NoParent
             THEN FindDefinition(Parent(a), n)
             ELSE None

\* A skip that stops one scope early.
RECURSIVE SkipOneShort(_, _, _)
SkipOneShort(a, n, skip) ==
    IF skip <= 1
      THEN FindDefinition(a, n)
      ELSE IF Parent(a) # NoParent
             THEN SkipOneShort(Parent(a), n, skip - 1)
             ELSE None

\* Scope::find_definition_skip
RECURSIVE FindDefinitionSkip(_, _, _)
FindDefinitionSkip(a, n, skip) ==
    IF skip <= 0
      THEN FindDefinition(a, n)
      ELSE IF Parent(a) # NoParent
             THEN FindDefinitionSkip(Parent(a), n, skip - 1)
             ELSE None

DoFindDefinitionSelf(a, n) ==
    /\ Alive(a)
    /\ ret' = [op |-> "find_definition_self", val |-> FindDefinitionSelf(a, n)]
    /\ UNCHANGED heap
    /\ ScopeOnly

DoFindDefinition(a, n) ==
    /\ Alive(a)
    /\ ret' = [op |-> "find_definition", val |-> FindDefinition(a, n)]
    /\ UNCHANGED heap
    /\ ScopeOnly

DoFindDefinitionSkip(a, n, skip) ==
    /\ Alive(a)
    /\ ret' = [op |-> "find_definition_skip", skip |-> skip,
               val |-> FindDefinitionSkip(a, n, skip)]
    /\ UNCHANGED heap
    /\ ScopeOnly

InitScope ==
    /\ heap = <<>>
    /\ ret = [op |-> "none"]

(***************************************************************************)
(* OpVar (ast.rs 411-498)                                                  *)
(***************************************************************************)
\* The variants the enum lists under `// Binary`.
DocBinary ==
    {"Add", "Sub", "Mul", "Div", "And", "Or", "Xor", "Ban", "Bor",
     "Gt", "Lt", "Eq", "Gte", "Lte", "Neq"}

\* The variants the enum lists under `// Unary`.
DocUnary == {"Neg", "Inv", "Bin", "Ref", "Der", "Ina", "Inb", "Dea", "Deb"}

\* The variants the enum lists under `// Code uses`.
DocCodeUses == {"_Lpr", "_Rpr", "_Com", "_Asn", "_Csn", "_Dum"}

OpVar == DocBinary \cup DocUnary \cup DocCodeUses

\* OpVar::is_binary: the arms of its match
IsBinary(o) ==
    o \in {"Add", "Sub", "Mul", "Div", "Gt", "Lt", "Eq", "Gte", "Lte", "Neq"}

\* OpVar::is_unary: the arms of its match
IsUnary(o) ==
    o \in {"Neg", "Inv", "Bin", "Ref", "Der", "Ina", "Inb", "Dea", "Deb"}

\* opvar.is_binary()
DoIsBinary ==
    /\ binary = <<>>
    /\ binary' = <<IsBinary(opvar)>>
    /\ UNCHANGED <<opvar, unary>>
    /\ OpOnly

\* opvar.is_unary()
DoIsUnary ==
    /\ unary = <<>>
    /\ unary' = <<IsUnary(opvar)>>
    /\ UNCHANGED <<opvar, binary>>
    /\ OpOnly

\* The parser replaces the operator it holds; nothing is known of the new one.
DoSetOp(o) ==
    /\ o # opvar
    /\ opvar' = o
    /\ binary' = <<>>
    /\ unary' = <<>>
    /\ OpOnly

InitOp ==
    /\ opvar \in OpVar
    /\ binary = <<>>
    /\ unary = <<>>

\* No operator expression is being classified: the dummy value is held.
OpIdle ==
    /\ opvar = "_Dum"
    /\ binary = <<>>
    /\ unary = <<>>

(***************************************************************************)
(* Specifications                                                          *)
(***************************************************************************)
NextPos ==
    \/ DoBump
    \/ DoInc
    \/ DoLf
    \/ DoIncSelf
    \/ DoLfSelf
    \/ DoBumpSelf

NextSpan ==
    \/ \E r \in Regs, s, e \in PosSet : DoSpanFrom(r, s, e)
    \/ \E r \in Regs, p \in PosSet : DoSpanPoint(r, p)
    \/ \E r \in Regs : DoSpanZero(r)
    \/ DoSpanAdd
    \/ \E r \in Regs : DoSpanFold(r)

NextLoop ==
    \/ LoopTest
    \/ LoopBody
    \/ LoopUnwrap

Addrs == 1..MaxScopes

NextScope ==
    \/ \E p \in {NoParent} \cup Addrs : DoScopeNew(p)
    \/ \E a \in Addrs : DoPtrClone(a)
    \/ \E a \in Addrs : DoPtrDrop(a)
    \/ \E a \in Addrs, n \in Names : DoTryInsert(a, n)
    \/ \E a \in Addrs, n \in Names : DoTryInsertOrReplaceSame(a, n)
    \/ \E a \in Addrs, n \in Names : DoFindDefinitionSelf(a, n)
    \/ \E a \in Addrs, n \in Names : DoFindDefinition(a, n)
    \/ \E a \in Addrs, n \in Names, k \in 0..MaxSkip : DoFindDefinitionSkip(a, n, k)

\* A component that is not running: loop_while has not been called.
LoopIdle ==
    /\ script = [i \in 1..MaxCalls |-> Continue]
    /\ pc = "while"
    /\ x = Continue
    /\ calls = 0
    /\ result = NoResult

InitPosSpec == InitPos /\ InitSpan /\ InitScope /\ LoopIdle /\ OpIdle

SpecPos == InitPosSpec /\ [][NextPos]_vars

SpecSpan == InitPosSpec /\ [][NextSpan]_vars

SpecScope == InitPosSpec /\ [][NextScope]_vars

InitLoopSpec == InitPos /\ InitSpan /\ InitScope /\ InitLoop /\ OpIdle

\* loop_while is sequential code: it keeps running while it can take a step.
SpecLoop == InitLoopSpec /\ [][NextLoop]_vars /\ WF_vars(NextLoop)

NextOp ==
    \/ DoIsBinary
    \/ DoIsUnary
    \/ \E o \in OpVar : DoSetOp(o)

InitOpSpec == InitPos /\ InitSpan /\ InitScope /\ LoopIdle /\ InitOp

SpecOp == InitOpSpec /\ [][NextOp]_vars

(***************************************************************************)
(* Scope & Symbol Table                                                    *)
(***************************************************************************)
Binds(a, n) == \E i \in 1..Len(heap[a].token_table) : heap[a].token_table[i].name = n

\* The scopes from a up to the root, following the parent fields.
RECURSIVE Chain(_)
Chain(a) == IF heap[a].parent = NoParent THEN <<a>> ELSE <<a>> \o Chain(heap[a].parent)

\* Every scope of the chain of a is still owned by some handle.
ChainAlive(a) == \A i \in 1..Len(Chain(a)) : heap[Chain(a)[i]].strong > 0

\* The entry of n in the nearest scope of chain c that binds n.
Nearest(c, n) ==
    IF \E i \in 1..Len(c) : Binds(c[i], n)
      THEN LET i == CHOOSE k \in 1..Len(c) :
                        /\ Binds(c[k], n)
                        /\ \A j \in 1..(k - 1) : ~Binds(c[j], n)
           IN TableGet(heap[c[i]].token_table, n)
      ELSE None

C1_Step ==
    ret'.op = "try_insert" =>
    \A a \in Addrs, n \in Names :
        DoTryInsert(a, n) =>
            LET t == heap[a].token_table IN
            /\ ret'.val = ~Binds(a, n)
            /\ Binds(a, n) => heap' = heap
            /\ ~Binds(a, n) =>
                  /\ heap'[a].token_table = Append(t, [name |-> n, entry |-> FreshEntry])
                  /\ \A b \in 1..Len(heap) : b # a => heap'[b] = heap[b]

\* C1: try_insert of n into scope s succeeds iff n is not bound in s itself,
\* whatever the enclosing scopes bind; an insert of a name s already binds
\* fails and leaves the table (and so the first entry) as it was.
C1_InsertConflict == [][C1_Step]_vars

\* try_insert has just succeeded in binding, in a scope whose live parent
\* binds the same name, a new entry for it.
C1_Witness ==
    /\ ret.op = "try_insert"
    /\ ret.val = TRUE
    /\ \E a \in 1..Len(heap) :
          /\ Alive(a)
          /\ Parent(a) # NoParent
          /\ Binds(a, <<"x">>)
          /\ Binds(Parent(a), <<"x">>)
          /\ TableGet(heap[a].token_table, <<"x">>) = 2
          /\ TableGet(heap[Parent(a)].token_table, <<"x">>) = 1

\* C2: in a chain of live scopes, find_definition of n from s is the entry
\* of n in the nearest scope from s to the root that binds n, None exactly
\* when no scope of the chain binds n; with x bound in an inner and an outer
\* scope, the inner scope sees the inner entry and the outer scope the outer.
C2_InnermostWins ==
    \A a \in 1..Len(heap), n \in Names :
        (Alive(a) /\ ChainAlive(a)) =>
            /\ FindDefinition(a, n) = Nearest(Chain(a), n)
            /\ FindDefinition(a, n) = None <=>
                  \A i \in 1..Len(Chain(a)) : ~Binds(Chain(a)[i], n)
            /\ (Binds(a, n) /\ heap[a].parent # NoParent /\ Binds(heap[a].parent, n)) =>
                  /\ FindDefinition(a, n) = FindDefinitionSelf(a, n)
                  /\ FindDefinition(heap[a].parent, n)
                        = FindDefinitionSelf(heap[a].parent, n)

\* find_definition has just returned the inner entry of x, the parent
\* binding x to another entry.
C2_Witness ==
    /\ ret.op = "find_definition"
    /\ \E a \in 1..Len(heap) :
          /\ Alive(a) /\ ChainAlive(a)
          /\ heap[a].parent # NoParent
          /\ Binds(a, <<"x">>)
          /\ Binds(heap[a].parent, <<"x">>)
          /\ ret.val = TableGet(heap[a].token_table, <<"x">>)
          /\ ret.val # TableGet(heap[heap[a].parent].token_table, <<"x">>)

\* C3: find_definition_skip(n, k) from s is find_definition of n from the
\* k-th ancestor of s (k = 0: from s), never an entry bound only in the k
\* skipped scopes, and None when s has fewer than k ancestors.
C3_SkipIsLookupAtAncestor ==
    \A a \in 1..Len(heap), n \in Names, k \in 0..MaxSkip :
        (Alive(a) /\ ChainAlive(a)) =>
            LET c == Chain(a) IN
            /\ k < Len(c) =>
                  /\ FindDefinitionSkip(a, n, k) = FindDefinition(c[k + 1], n)
                  /\ FindDefinitionSkip(a, n, k) = Nearest(SubSeq(c, k + 1, Len(c)), n)
            /\ k >= Len(c) => FindDefinitionSkip(a, n, k) = None
            /\ \A j \in 1..k :
                  (j <= Len(c) /\ Binds(c[j], n)) =>
                      FindDefinitionSkip(a, n, k) # TableGet(heap[c[j]].token_table, n)

\* find_definition_skip with skip 2 has just returned the root's entry of x
\* from the innermost of three scopes, which binds x itself.
C3_Witness ==
    /\ ret.op = "find_definition_skip"
    /\ ret.skip = 2
    /\ \E a \in 1..Len(heap) :
          /\ Alive(a) /\ ChainAlive(a)
          /\ Len(Chain(a)) = 3
          /\ Binds(a, <<"x">>)
          /\ Binds(Chain(a)[3], <<"x">>)
          /\ ret.val = TableGet(heap[Chain(a)[3]].token_table, <<"x">>)

Letters == {"x", "y", "_"}

Digits == {"1"}

\* The identifier grammar [A-Za-z_][A-Za-z0-9_]* over the model's characters.
IsIdentifier(n) ==
    /\ Len(n) >= 1
    /\ n[1] \in Letters
    /\ \A i \in 2..Len(n) : n[i] \in Letters \cup Digits

C4_Step ==
    ret'.op = "try_insert" =>
    \A a \in Addrs, n \in Names :
        (DoTryInsert(a, n) /\ ~IsIdentifier(n)) =>
            /\ ret'.val = FALSE
            /\ heap' = heap

\* C4: an insert of a name outside the identifier grammar fails and leaves
\* the scope unchanged.
C4_InvalidNameRejected == [][C4_Step]_vars

NamesUnique ==
    \A a \in 1..Len(heap) :
        \A i, j \in 1..Len(heap[a].token_table) :
            heap[a].token_table[i].name = heap[a].token_table[j].name => i = j

ScopeOps ==
    {"try_insert", "try_insert_or_replace_same",
     "find_definition_self", "find_definition", "find_definition_skip"}

LookupOps == {"find_definition_self", "find_definition", "find_definition_skip"}

C5_Step ==
    /\ ret'.op \in ScopeOps =>
          /\ Len(heap') = Len(heap)
          /\ \A a \in 1..Len(heap) :
                LET t == heap[a].token_table
                    u == heap'[a].token_table
                IN /\ Len(t) <= Len(u)
                   /\ Len(u) <= Len(t) + 1
                   /\ \A i \in 1..Len(t) : u[i] = t[i]
    /\ ret'.op \in LookupOps => heap' = heap
    /\ (ret'.op = "try_insert_or_replace_same" /\ ret'.val = FALSE) => heap' = heap

\* C5: try_insert, try_insert_or_replace_same and the lookups only ever
\* append to a scope: a bound name keeps its entry and its position, a name
\* occurs once per scope, and the lookups change no scope.
C5_InsertOnly == []NamesUnique /\ [][C5_Step]_vars

\* try_insert_or_replace_same has just been refused on a scope holding two
\* bindings, in their insertion order.
C5_Witness ==
    /\ ret.op = "try_insert_or_replace_same"
    /\ ret.val = FALSE
    /\ \E a \in 1..Len(heap) :
          /\ Len(heap[a].token_table) = 2
          /\ heap[a].token_table[1] = [name |-> <<"y">>, entry |-> 1]
          /\ heap[a].token_table[2] = [name |-> <<"x">>, entry |-> 2]

WeakParent ==
    \A a \in 1..Len(heap) :
        (Alive(a) /\ heap[a].parent # NoParent) =>
            LET p == heap[a].parent IN
            /\ Parent(a) = p <=> heap[p].strong > 0
            /\ heap[p].strong = 0 =>
                  /\ Parent(a) = NoParent
                  /\ \A n \in Names : FindDefinition(a, n) = FindDefinitionSelf(a, n)
                  /\ \A n \in Names, k \in 1..MaxSkip : FindDefinitionSkip(a, n, k) = None

\* Scope::new takes over the handle it is given and adds none of its own.
NewAddsNoOwner ==
    ret'.op = "new" =>
    \A p \in Addrs :
        DoScopeNew(p) =>
            /\ heap'[p].strong = heap[p].strong - 1
            /\ heap'[Len(heap')].parent = p
            /\ heap[p].strong = 1 => heap'[p] = Dropped

\* C9: a child scope holds a non-owning reference to its parent: creating
\* it adds no owner to the parent, parent() is the parent exactly while an
\* owning handle to the parent exists and None after the last is dropped,
\* and lookup from the child then sees the child's own bindings only.
C9_WeakParent == []WeakParent /\ [][NewAddsNoOwner]_vars

\* A lookup from a child whose parent has been dropped has just found
\* nothing, the child binding a name of its own.
C9_Witness ==
    /\ ret.op = "find_definition"
    /\ ret.val = None
    /\ \E a \in 1..Len(heap) :
          /\ Alive(a)
          /\ heap[a].parent # NoParent
          /\ heap[heap[a].parent].strong = 0
          /\ Len(heap[a].token_table) = 1

(***************************************************************************)
(* Source Location: Pos transitions                                        *)
(***************************************************************************)
\* C10: inc adds 1 to column and offset and keeps the line; lf sets the
\* column to 0 and adds 1 to line and offset; bump adds 1 to the offset only;
\* inc_self, lf_self and bump_self give the same position as inc, lf and bump.
\* After any sequence of them from Pos::zero the offset is the number of
\* transitions applied, and each position is strictly greater (in the offset
\* ordering) than the one before it.
C10_PosTransitions ==
    LET b == last.before IN
    /\ cur.index = steps
    /\ last.op \in {"inc", "inc_self"} =>
          cur = Pos(b.ln, b.pos + 1, b.index + 1)
    /\ last.op \in {"lf", "lf_self"} =>
          cur = Pos(b.ln + 1, 0, b.index + 1)
    /\ last.op \in {"bump", "bump_self"} =>
          cur = Pos(b.ln, b.pos, b.index + 1)
    /\ last.op # "zero" => PosCmp(b, cur) = "Less" /\ PosCmp(cur, b) = "Greater"
    /\ IncSelf(cur) = Inc(cur)
    /\ LfSelf(cur) = Lf(cur)
    /\ BumpSelf(cur) = Bump(cur)

\* lf_self has just reset a non-zero column, after incs and a bump.
C10_Witness ==
    /\ last.op = "lf_self"
    /\ last.before.pos >= 2
    /\ last.before.index > last.before.pos + last.before.ln
    /\ cur.pos = 0

(***************************************************************************)
(* Source Location: Span                                                   *)
(***************************************************************************)
MinNat(m, n) == IF m <= n THEN m ELSE n

MaxNat(m, n) == IF m <= n THEN n ELSE m

\* Positions of equal offset are the same position, as in one source text.
SameSource(ps) == \A p, q \in ps : p.index = q.index => p = q

Endpoints(a, b) == {a.start, a.end, b.start, b.end}

\* C6 as stated: the union is the span from the earlier start to the later
\* end, and it is the same span whichever operand comes first: a + b = b + a.
C6_UnionCommutes ==
    sum # NoSpan =>
        /\ sum.start.index = MinNat(spans["lhs"].start.index, spans["rhs"].start.index)
        /\ sum.end.index = MaxNat(spans["lhs"].end.index, spans["rhs"].end.index)
        /\ sum = SpanAdd(spans["rhs"], spans["lhs"])

\* C6 as amended: the union starts at a start of a or b of the smaller offset
\* and ends at an end of a or b of the larger offset; on equal offsets it
\* takes the start of a and the end of b.  a + b and b + a agree on the
\* offsets of start and end, and are the same span whenever endpoints of
\* equal offset are equal positions (spans of one source text).
C6_UnionByOffset ==
    sum # NoSpan =>
        LET a == spans["lhs"]
            b == spans["rhs"]
            rev == SpanAdd(b, a)
        IN /\ sum.start \in {a.start, b.start}
           /\ sum.end \in {a.end, b.end}
           /\ sum.start.index = MinNat(a.start.index, b.start.index)
           /\ sum.end.index = MaxNat(a.end.index, b.end.index)
           /\ a.start.index = b.start.index => sum.start = a.start
           /\ a.end.index = b.end.index => sum.end = b.end
           /\ rev.start.index = sum.start.index
           /\ rev.end.index = sum.end.index
           /\ SameSource(Endpoints(a, b)) => rev = sum

\* A union has been taken of two spans whose starts tie on the offset but
\* differ in column.
C6_Witness ==
    /\ sum # NoSpan
    /\ spans["lhs"].start.index = spans["rhs"].start.index
    /\ spans["lhs"].start # spans["rhs"].start
    /\ spans["lhs"].end.index < spans["rhs"].end.index

SpansOrdered ==
    /\ \A r \in Regs : PosLe(spans[r].start, spans[r].end)
    /\ \A r \in Regs : spans[r].start.index <= spans[r].end.index
    /\ sum # NoSpan => sum.start.index <= sum.end.index

\* The step that aborts: taken from a running program, it hands no span to
\* the caller (no register changes, no union is held).
FromAborts ==
    panicked' => (~panicked /\ spans' = spans /\ sum' = NoSpan)

\* C7: every span obtained from Span::from, Span::point, Span::zero and from
\* unions of such spans has start <= end by offset; Span::from with
\* start > end aborts and returns no span.
C7_SpanOrdered == []SpansOrdered /\ [][FromAborts]_vars

\* A union was folded back into an operand and differs from the other
\* operand: a span made by the union, with start < end.
C7_Witness ==
    /\ sum # NoSpan
    /\ sum # spans["lhs"]
    /\ sum # spans["rhs"]
    /\ sum.start.index < sum.end.index
    /\ spans["lhs"].start.index > spans["rhs"].start.index

(***************************************************************************)
(* Iteration Control Helper                                                *)
(***************************************************************************)
Stops == { i \in 1..MaxCalls : script[i].tag = "Stop" }

\* The first invocation of f that returns Stop, 0 when none does.
FirstStop == IF Stops = {} THEN 0 ELSE CHOOSE i \in Stops : \A j \in Stops : i <= j

LoopSafe ==
    /\ pc # "panic"
    /\ calls <= (IF FirstStop = 0 THEN MaxCalls ELSE FirstStop)
    /\ pc \in {"unwrap", "done"} => FirstStop # 0 /\ calls = FirstStop
    /\ pc = "done" => result = script[FirstStop].val
    /\ pc # "done" => result = NoResult

\* C8: loop_while invokes f while it returns Continue; when the k-th
\* invocation is the first to return Stop(x), f has been invoked exactly k
\* times, the loop terminates with x, and LoopCtrl::unwrap does not panic;
\* when no invocation returns Stop the loop does not terminate.
C8_LoopWhile == []LoopSafe /\ ((FirstStop # 0) ~> (pc = "done"))

\* loop_while returned "b" from the third invocation, after two Continues.
C8_Witness ==
    /\ pc = "done"
    /\ calls = 3
    /\ result = "b"
    /\ script[1] = Continue
    /\ script[2] = Continue

(***************************************************************************)
(* Operators                                                               *)
(***************************************************************************)
\* C11: is_binary is true exactly for the operators the enum documents as
\* binary, is_unary exactly for those it documents as unary, and no operator
\* is classified as both.
C11_OpClasses ==
    /\ binary # <<>> => (binary[1] <=> opvar \in DocBinary)
    /\ unary # <<>> => (unary[1] <=> opvar \in DocUnary)
    /\ ~(IsBinary(opvar) /\ IsUnary(opvar))

====
